---- MODULE Spec2Model ----
(***************************************************************************)
(* A model of scrape.py: the OVAPI client with its dogpile cache, Station, *)
(* DirectionAtStation (a timing point) with its two lru_cache'd            *)
(* properties, LineWithDirection, Intervals and Train.                     *)
(*                                                                         *)
(* Conventions.  A datetime is a number of seconds since midnight, a       *)
(* timedelta a signed number of seconds.  An upstream ISO-8601 timestamp   *)
(* is the pair <<minute, second>>, which fromisoformat turns into a        *)
(* datetime.  A Python call either returns or raises: Return(v), Raise(e). *)
(* A float that is a quotient of integers is kept exact as [num, den].     *)
(* `ret` holds what the operation of the current step gave its caller; a   *)
(* step of the environment leaves it Idle.                                 *)
(***************************************************************************)
EXTENDS Integers, Sequences, FiniteSets, TLC

VARIABLES
    payload,          \* timing point code -> what global_api_client.get(endpoint)[code] yields now
    dogpile,          \* cache_region: endpoint -> cached return value of OVAPI.get, or NO_VALUE
    stop_name_cache,  \* the lru_cache(maxsize=1) of DirectionAtStation.stop_name: <<>> or <<entry>>
    lines_cache,      \* the lru_cache(maxsize=1) of DirectionAtStation.lines: <<>> or <<entry>>
    first_seen,       \* history: per attribute and instance, <<the value its first call returned>>
    ret               \* the operation of this step, its arguments and its outcome

vars == <<payload, dogpile, stop_name_cache, lines_cache, first_seen, ret>>

-----------------------------------------------------------------------------
(* Bounds of the model *)

MaxPasses == 4          \* passes of one timing point, line-level operations
MaxPassesCache == 1     \* passes of one timing point, cached attributes
MaxPassesDirection == 2 \* passes of the timing point, direction reads
MaxPassesStation == 2   \* passes of one timing point, Station.lines
MaxPassesIntervals == 2 \* passes of the timing point, Intervals
MaxMinute == 1          \* minutes of a timestamp, Train-level operations
MaxGap == 1             \* largest gap handed to Intervals directly
MaxGaps == 3            \* longest gap sequence handed to Intervals directly

-----------------------------------------------------------------------------
(* Python outcomes *)

Return(v) == [exc |-> "None", val |-> v]
Raise(e) == [exc |-> e]
Idle == [op |-> "idle"]

None == "None"
NO_VALUE == <<>>   \* an endpoint without a cached value; a cached value v is <<v>>

\* list(s) of a set s: the elements in iteration order, which Python leaves open
list(s) ==
    {q \in [1..Cardinality(s) -> s] : \A i, j \in 1..Cardinality(s) : q[i] = q[j] => i = j}

-----------------------------------------------------------------------------
(* Module-level table *)

direction_to_destination ==
    [Northbound |-> <<"Rotterdam Centraal", "Pijnacker Zuid", "Leidschenveen", "Den Haag Centraal">>,
     Southbound |-> <<"De Akkers", "Slinge">>,
     Eastbound |-> <<"Nesselande", "Capelsebrug", "Kralingse Zoom", "Binnenhof", "De Terp">>,
     Westbound |-> <<"Parkweg", "Schiedam Centrum">>]

\* for k, v in direction_to_destination.items(): for i in v: destination_to_direction[i] = k
destination_to_direction ==
    LET known == UNION {{direction_to_destination[k][i] : i \in DOMAIN direction_to_destination[k]} :
                        k \in DOMAIN direction_to_destination}
    IN [i \in known |->
           CHOOSE k \in DOMAIN direction_to_destination :
               \E n \in DOMAIN direction_to_destination[k] : direction_to_destination[k][n] = i]

-----------------------------------------------------------------------------
(* Time *)

fromisoformat(ts) == ts[1] * 60 + ts[2]

\* int(timedelta.total_seconds() / 60): int() drops the fraction, toward zero
timedelta_to_integer_minutes(timedelta) ==
    IF timedelta >= 0 THEN timedelta \div 60 ELSE 0 - ((0 - timedelta) \div 60)

-----------------------------------------------------------------------------
(* Train *)

Train(train_name, train_data) == [train_name |-> train_name, train_data |-> train_data]

line(t) == t.train_data.LinePublicNumber
destination(t) == t.train_data.DestinationName50
arrival_time(t) == fromisoformat(t.train_data.ExpectedArrivalTime)
target_arrival_time(t) == fromisoformat(t.train_data.TargetArrivalTime)

time_until_departure(t, now) == arrival_time(t) - now
minutes_until_departure(t, now) == timedelta_to_integer_minutes(time_until_departure(t, now))

delay(t) == arrival_time(t) - target_arrival_time(t)

\* self.delay.total_seconds() / 60: true division, a float
delay_mins(t) == [num |-> delay(t), den |-> 60]

\* Python's == between a float num/den and an int
FloatEqInt(f, n) == f.num = n * f.den

-----------------------------------------------------------------------------
(* Builtins the code relies on *)

RECURSIVE least(_)
least(s) ==
    IF Len(s) = 1 THEN s[1]
    ELSE LET m == least(SubSeq(s, 1, Len(s) - 1))
         IN IF s[Len(s)] < m THEN s[Len(s)] ELSE m

RECURSIVE greatest(_)
greatest(s) ==
    IF Len(s) = 1 THEN s[1]
    ELSE LET m == greatest(SubSeq(s, 1, Len(s) - 1))
         IN IF s[Len(s)] > m THEN s[Len(s)] ELSE m

\* min(intervals): ValueError on an empty sequence
min(s) == IF Len(s) = 0 THEN Raise("ValueError") ELSE Return(least(s))

\* max(intervals): ValueError on an empty sequence
max(s) == IF Len(s) = 0 THEN Raise("ValueError") ELSE Return(greatest(s))

DigitChar(d) == <<"0", "1", "2", "3", "4", "5", "6", "7", "8", "9">>[d + 1]

RECURSIVE str_nat(_)
str_nat(n) == IF n < 10 THEN <<DigitChar(n)>> ELSE str_nat(n \div 10) \o <<DigitChar(n % 10)>>

\* f"{n}" of an int: its decimal digits, a string as the sequence of its characters
str(n) == IF n < 0 THEN <<"-">> \o str_nat(0 - n) ELSE str_nat(n)

KeyOf(t, key) == IF key = "arrival_time" THEN arrival_time(t) ELSE target_arrival_time(t)

\* sorted(s, key=lambda t: t.<key>): stable, ascending
RECURSIVE sorted(_, _)
sorted(s, key) ==
    IF Len(s) <= 1 THEN s
    ELSE LET init == sorted(SubSeq(s, 1, Len(s) - 1), key)
             x == s[Len(s)]
             pos == Cardinality({i \in DOMAIN init : KeyOf(init[i], key) <= KeyOf(x, key)})
         IN SubSeq(init, 1, pos) \o <<x>> \o SubSeq(init, pos + 1, Len(init))

-----------------------------------------------------------------------------
(* Intervals *)

Intervals_init_default(intervals) ==
    Return([intervals |-> intervals,
            minimum |-> IF Len(intervals) = 0 THEN 0 ELSE least(intervals),
            maximum |-> IF Len(intervals) = 0 THEN 0 ELSE greatest(intervals)])

Intervals_init_last(intervals) ==
    IF Len(intervals) = 0 THEN Raise("ValueError")
    ELSE Return([intervals |-> intervals,
                 minimum |-> least(intervals),
                 maximum |-> intervals[Len(intervals)]])

\* Intervals.__init__: the first statement to raise ends the construction
Intervals_init(intervals) ==
    IF min(intervals).exc # None THEN min(intervals)
    ELSE IF max(intervals).exc # None THEN max(intervals)
    ELSE Return([intervals |-> intervals,
                 minimum |-> min(intervals).val,
                 maximum |-> max(intervals).val])

\* Intervals.__repr__
Intervals_repr(self) ==
    IF self.minimum # self.maximum
    THEN str(self.minimum) \o <<"-">> \o str(self.maximum)
    ELSE str(self.minimum)

-----------------------------------------------------------------------------
(* DirectionAtStation and LineWithDirection *)

DirectionAtStation(id, timing_point_code) == [id |-> id, timing_point_code |-> timing_point_code]
LineWithDirection(line_name, timing_point) == [line_name |-> line_name, timing_point |-> timing_point]

\* DirectionAtStation._get: the client's answer for this timing point
DirectionAtStation_get(self) == payload[self.timing_point_code]

DirectionAtStation_trains_unsorted(self) ==
    LET passes == DirectionAtStation_get(self).Passes
    IN [k \in DOMAIN passes |-> Train(k, passes[k])]

\* DirectionAtStation.trains: one Train per item of Passes, sorted by arrival_time
DirectionAtStation_trains(self) ==
    LET passes == DirectionAtStation_get(self).Passes
    IN sorted([k \in DOMAIN passes |-> Train(k, passes[k])], "arrival_time")

\* The body of DirectionAtStation.lines: every list it may build, one per
\* iteration order of the set of line names
DirectionAtStation_lines_body(self) ==
    LET ts == DirectionAtStation_trains(self)
        line_names == {line(ts[i]) : i \in DOMAIN ts}
    IN {[i \in DOMAIN q |-> LineWithDirection(q[i], self)] : q \in list(line_names)}

\* DirectionAtStation.stop_name's body
DirectionAtStation_stop_name_body(self) == DirectionAtStation_get(self).Stop.TimingPointName

\* LineWithDirection.trains
LineWithDirection_trains(self) ==
    SelectSeq(DirectionAtStation_trains(self.timing_point), LAMBDA t : line(t) = self.line_name)

\* LineWithDirection.destinations
destinations(self) ==
    LET ts == LineWithDirection_trains(self) IN {destination(ts[i]) : i \in DOMAIN ts}

\* LineWithDirection.direction: every outcome, one per iteration order of the set
direction(self) ==
    {IF Len(q) = 0 THEN Raise("IndexError")
     ELSE IF q[1] \notin DOMAIN destination_to_direction THEN Raise("KeyError")
     ELSE Return(destination_to_direction[q[1]]) : q \in list(destinations(self))}

next_two_departure_times(self, nows) ==
    LET ts == LineWithDirection_trains(self)
        n == Cardinality({x \in 0..1 : x < Len(ts)})
    IN [x \in 1..n |-> minutes_until_departure(ts[x], nows[x])]

\* LineWithDirection.next_three_departure_times; nows[x] is datetime.now() at the
\* x-th read; an index past the end raises IndexError, which is passed over
next_three_departure_times(self, nows) ==
    LET ts == LineWithDirection_trains(self)
        n == Cardinality({x \in 0..2 : x < Len(ts)})
    IN [x \in 1..n |-> minutes_until_departure(ts[x], nows[x])]

intervals_by_arrival(self) ==
    LET trains_to_use == LineWithDirection_trains(self)
    IN Intervals_init([idx \in 1..(Len(trains_to_use) - 1) |->
           timedelta_to_integer_minutes(target_arrival_time(trains_to_use[idx + 1])
                                        - target_arrival_time(trains_to_use[idx]))])

\* LineWithDirection.intervals: the loop leaves at the last train (IndexError, break)
intervals(self) ==
    LET trains_to_use == sorted(LineWithDirection_trains(self), "target_arrival_time")
    IN Intervals_init([idx \in 1..(Len(trains_to_use) - 1) |->
           timedelta_to_integer_minutes(target_arrival_time(trains_to_use[idx + 1])
                                        - target_arrival_time(trains_to_use[idx]))])

-----------------------------------------------------------------------------
(* Station *)

TimingPoints == <<"tpc1", "tpc2">>   \* the keys of the stop area's payload, in its order

\* Station.directions: a new DirectionAtStation per timing point, on every read
directions == [j \in DOMAIN TimingPoints |-> DirectionAtStation(0, TimingPoints[j])]

put_if_absent(lines, l, d) ==
    IF l.line_name \in DOMAIN lines
    THEN [lines EXCEPT ![l.line_name] = IF d \in DOMAIN @ THEN @ ELSE @ @@ (d :> l)]
    ELSE lines @@ (l.line_name :> (d :> l))

\* lines[line.line_name][line.direction] = line, on a defaultdict(dict)
put(lines, l, d) ==
    IF l.line_name \in DOMAIN lines
    THEN [lines EXCEPT ![l.line_name] =
             IF d \in DOMAIN @ THEN [@ EXCEPT ![d] = l] ELSE @ @@ (d :> l)]
    ELSE lines @@ (l.line_name :> (d :> l))

\* One turn of the loop of Station.lines on line l, from run r: line.direction may
\* raise, and gives one outcome per iteration order of the destinations
visit_line(r, l) ==
    {IF o.exc # None
     THEN [r EXCEPT !.exc = o.exc]
     ELSE [r EXCEPT !.lines = put(r.lines, l, o.val),
                    !.resolved = Append(r.resolved, [line |-> l, direction |-> o.val])] :
     o \in direction(l)}

RECURSIVE visit_lines(_, _, _)
visit_lines(r, ls, k) ==
    IF r.exc # None \/ k > Len(ls) THEN {r}
    ELSE UNION {visit_lines(r2, ls, k + 1) : r2 \in visit_line(r, ls[k])}

\* Station._all_lines feeding the loop: direction.lines is computed when the
\* generator reaches that direction (a new instance: a miss, which takes the
\* cache's one slot), and its lines are visited before the next direction
RECURSIVE visit_directions(_, _, _)
visit_directions(r, ds, j) ==
    IF r.exc # None \/ j > Len(ds) THEN {r}
    ELSE UNION {UNION {visit_directions(r2, ds, j + 1) :
                       r2 \in visit_lines([r EXCEPT !.cache = <<[key |-> ds[j], value |-> ls]>>], ls, 1)} :
                ls \in DirectionAtStation_lines_body(ds[j])}

\* Station.lines: every run of it from the current payload
Station_lines ==
    visit_directions([lines |-> <<>>, resolved |-> <<>>, exc |-> None, cache |-> lines_cache],
                     directions, 1)

-----------------------------------------------------------------------------
(* OVAPI *)

\* str.format of an endpoint template
format(kind, code) == <<kind, code, "departures">>

\* DirectionAtStation.endpoint
endpoint(self) == format("tpc", self.timing_point_code)

\* resp.json()
json(resp) == IF resp.body.json THEN Return(resp.body.doc) ELSE Raise("JSONDecodeError")

\* The body of OVAPI.get on the response requests.get gave: resp.raise_for_status
\* is read, not called
OVAPI_get(resp) ==
    IF "raised" \in DOMAIN resp THEN Raise(resp.raised) ELSE json(resp)

-----------------------------------------------------------------------------
(* What upstream can hold *)

StopNames == {"Blijdorp", "Wilhelminaplein"}
Lines == {"E", "D"}
Instances == {DirectionAtStation(1, "tpc1"), DirectionAtStation(2, "tpc2")}

TrainData(l, dest, eta, tta) ==
    [LinePublicNumber |-> l, DestinationName50 |-> dest,
     ExpectedArrivalTime |-> eta, TargetArrivalTime |-> tta]

\* <<expected, target>> of the trains of the line-level operations
LineTimes ==
    {<< <<26, 0>>, <<0, 0>> >>, << <<10, 45>>, <<10, 0>> >>,
     << <<25, 0>>, <<25, 0>> >>, << <<25, 50>>, <<25, 30>> >>}

LineTrainData ==
    {TrainData("E", "De Akkers", p[1], p[2]) : p \in LineTimes}
    \cup {TrainData("D", "De Akkers", p[1], p[2]) :
          p \in {<< <<10, 0>>, <<10, 0>> >>, << <<12, 30>>, <<12, 0>> >>}}

\* datetime.now() at the reads of one next_three_departure_times
Nows == {<<0, 0, 0>>, <<0, 0, 740>>, <<740, 740, 740>>}

\* "Den Haag HS" is a destination the table does not know
DirectionTrainData ==
    {TrainData(l, dest, <<10, 0>>, <<10, 0>>) :
     l \in Lines, dest \in {"Rotterdam Centraal", "De Akkers", "Den Haag HS"}}

StationTrainData ==
    {TrainData("E", dest, <<10, 0>>, <<10, 0>>) :
     dest \in {"Rotterdam Centraal", "De Akkers", "Den Haag HS"}}
    \cup {TrainData("D", "Rotterdam Centraal", <<10, 0>>, <<10, 0>>)}

CacheTrainData == {TrainData("E", "De Akkers", <<10, 0>>, <<10, 0>>)}

IntervalsTrainData ==
    {TrainData("E", "De Akkers", <<m, 0>>, <<m, 0>>) : m \in {10, 25}}

Timestamps == {<<m, sec>> : m \in 0..MaxMinute, sec \in 0..59}

Gaps == UNION {[1..n -> (0 - 1)..MaxGap] : n \in 0..MaxGaps}

EmptyPayload ==
    [tp \in {TimingPoints[j] : j \in DOMAIN TimingPoints} |->
        [Stop |-> [TimingPointName |-> "Blijdorp"], Passes |-> <<>>]]

Endpoints == {format("stopareacode", "Bdp")} \cup {endpoint(d) : d \in Instances}

\* A response body: a JSON document, or text that is not JSON
Json(doc) == [json |-> TRUE, doc |-> doc]
NotJson == [json |-> FALSE]

ValidDocs(e) ==
    {(e[2] :> [Stop |-> [TimingPointName |-> n], Passes |-> <<>>]) : n \in StopNames}

ErrorDoc == [error |-> "Not Found"]

\* What requests.get may give for an endpoint: a response, or ConnectionError
Responses(e) ==
    {[status_code |-> 200, body |-> Json(d)] : d \in ValidDocs(e)}
    \cup {[status_code |-> c, body |-> Json(ErrorDoc)] : c \in {404, 500}}
    \cup {[status_code |-> c, body |-> NotJson] : c \in {200, 502}}
    \cup {[raised |-> "ConnectionError"]}

-----------------------------------------------------------------------------
(* Steps of the environment *)

\* Upstream announces a pass
AddPass(tp, data, bound) ==
    /\ Len(payload[tp].Passes) < bound
    /\ payload' = [payload EXCEPT ![tp].Passes = Append(@, data)]
    /\ ret' = Idle
    /\ UNCHANGED <<dogpile, stop_name_cache, lines_cache, first_seen>>

\* Upstream drops its oldest pass
DropPass(tp) ==
    /\ Len(payload[tp].Passes) > 0
    /\ payload' = [payload EXCEPT ![tp].Passes = Tail(@)]
    /\ ret' = Idle
    /\ UNCHANGED <<dogpile, stop_name_cache, lines_cache, first_seen>>

\* Upstream renames a stop
Rename(tp, n) ==
    /\ payload[tp].Stop.TimingPointName # n
    /\ payload' = [payload EXCEPT ![tp].Stop.TimingPointName = n]
    /\ ret' = Idle
    /\ UNCHANGED <<dogpile, stop_name_cache, lines_cache, first_seen>>

\* A cached answer of the client passes its expiration_time
Expire(e) ==
    /\ dogpile[e] # NO_VALUE
    /\ dogpile' = [dogpile EXCEPT ![e] = NO_VALUE]
    /\ ret' = Idle
    /\ UNCHANGED <<payload, stop_name_cache, lines_cache, first_seen>>

-----------------------------------------------------------------------------
(* Steps of the program *)

\* OVAPI.get under cache_region.cache_on_arguments: a cached value is returned;
\* otherwise the body runs, and what it returns (not what it raises) is cached
CallGet(e) ==
    /\ IF dogpile[e] # NO_VALUE
       THEN /\ ret' = [op |-> "get", endpoint |-> e, resp |-> [cached |-> TRUE],
                         out |-> Return(dogpile[e][1])]
            /\ dogpile' = dogpile
       ELSE \E resp \in Responses(e) :
            /\ ret' = [op |-> "get", endpoint |-> e, resp |-> resp, out |-> OVAPI_get(resp)]
            /\ dogpile' = IF OVAPI_get(resp).exc = None
                          THEN [dogpile EXCEPT ![e] = <<OVAPI_get(resp).val>>]
                          ELSE dogpile
    /\ UNCHANGED <<payload, stop_name_cache, lines_cache, first_seen>>

CallTrains(self) ==
    /\ ret' = [op |-> "trains", self |-> self, out |-> Return(DirectionAtStation_trains(self))]
    /\ UNCHANGED <<payload, dogpile, stop_name_cache, lines_cache, first_seen>>

CallDelayMins(self, k) ==
    /\ k \in DOMAIN DirectionAtStation_trains(self)
    /\ ret' = [op |-> "delay_mins", self |-> DirectionAtStation_trains(self)[k],
               out |-> Return(delay_mins(DirectionAtStation_trains(self)[k]))]
    /\ UNCHANGED <<payload, dogpile, stop_name_cache, lines_cache, first_seen>>

CallMinutesUntilDeparture(self, k, now) ==
    /\ k \in DOMAIN DirectionAtStation_trains(self)
    /\ ret' = [op |-> "minutes_until_departure", self |-> DirectionAtStation_trains(self)[k],
               now |-> now,
               out |-> Return(minutes_until_departure(DirectionAtStation_trains(self)[k], now))]
    /\ UNCHANGED <<payload, dogpile, stop_name_cache, lines_cache, first_seen>>

CallNextThree(self, nows) ==
    /\ ret' = [op |-> "next_three_departure_times", self |-> self, nows |-> nows,
               out |-> Return(next_three_departure_times(self, nows))]
    /\ UNCHANGED <<payload, dogpile, stop_name_cache, lines_cache, first_seen>>

CallIntervals(self) ==
    /\ ret' = [op |-> "intervals", self |-> self, out |-> intervals(self)]
    /\ UNCHANGED <<payload, dogpile, stop_name_cache, lines_cache, first_seen>>

\* Intervals(gaps), constructed directly
CallNewIntervals(gaps) ==
    /\ ret' = [op |-> "Intervals", intervals |-> gaps, out |-> Intervals_init(gaps)]
    /\ UNCHANGED <<payload, dogpile, stop_name_cache, lines_cache, first_seen>>

\* repr() of the Intervals object the last step returned
CallRepr ==
    /\ ret.op \in {"intervals", "Intervals"}
    /\ ret.out.exc = None
    /\ ret' = [op |-> "repr", self |-> ret.out.val, out |-> Return(Intervals_repr(ret.out.val))]
    /\ UNCHANGED <<payload, dogpile, stop_name_cache, lines_cache, first_seen>>

\* functools.lru_cache(maxsize=1) on a method: one cache for the class, keyed by self
lru_hit(cache, key) == Len(cache) = 1 /\ cache[1].key = key
lru_store(cache, key, value) == <<[key |-> key, value |-> value]>>

Remember(attr, self, value) ==
    IF first_seen[attr][self.id] = <<>>
    THEN [first_seen EXCEPT ![attr][self.id] = <<value>>]
    ELSE first_seen

CallStopName(self) ==
    LET value == IF lru_hit(stop_name_cache, self)
                 THEN stop_name_cache[1].value
                 ELSE DirectionAtStation_stop_name_body(self)
    IN /\ stop_name_cache' = IF lru_hit(stop_name_cache, self)
                             THEN stop_name_cache
                             ELSE lru_store(stop_name_cache, self, value)
       /\ first_seen' = Remember("stop_name", self, value)
       /\ ret' = [op |-> "stop_name", self |-> self, out |-> Return(value)]
       /\ UNCHANGED <<payload, dogpile, lines_cache>>

CallLines(self) ==
    \E value \in IF lru_hit(lines_cache, self)
                 THEN {lines_cache[1].value}
                 ELSE DirectionAtStation_lines_body(self) :
       /\ lines_cache' = IF lru_hit(lines_cache, self)
                         THEN lines_cache
                         ELSE lru_store(lines_cache, self, value)
       /\ first_seen' = Remember("lines", self, value)
       /\ ret' = [op |-> "lines", self |-> self, out |-> Return(value)]
       /\ UNCHANGED <<payload, dogpile, stop_name_cache>>

\* line.direction of a line of the list DirectionAtStation.lines holds for its callers
CallDirection(l) ==
    \E o \in direction(l) :
       /\ ret' = [op |-> "direction", self |-> l, out |-> o]
       /\ UNCHANGED <<payload, dogpile, stop_name_cache, lines_cache, first_seen>>

CallStationLines ==
    \E r \in Station_lines :
       /\ ret' = [op |-> "Station.lines", resolved |-> r.resolved,
                  out |-> IF r.exc = None THEN Return(r.lines) ELSE Raise(r.exc)]
       /\ lines_cache' = r.cache
       /\ UNCHANGED <<payload, dogpile, stop_name_cache, first_seen>>

-----------------------------------------------------------------------------
(* Specifications *)

InitProgram ==
    /\ dogpile = [e \in Endpoints |-> NO_VALUE]
    /\ stop_name_cache = <<>>
    /\ lines_cache = <<>>
    /\ first_seen = [attr \in {"stop_name", "lines"} |-> [i \in {d.id : d \in Instances} |-> <<>>]]
    /\ ret = Idle

Init ==
    /\ payload = EmptyPayload
    /\ InitProgram

\* The cached attributes of two timing points' instances, upstream changing
Next ==
    \/ \E tp \in DOMAIN payload, data \in CacheTrainData : AddPass(tp, data, MaxPassesCache)
    \/ \E tp \in DOMAIN payload : DropPass(tp)
    \/ \E tp \in DOMAIN payload, n \in StopNames : Rename(tp, n)
    \/ \E self \in Instances : CallStopName(self)
    \/ \E self \in Instances : CallLines(self)

Spec == Init /\ [][Next]_vars

\* The client and its cache
NextGet ==
    \/ \E e \in Endpoints : CallGet(e)
    \/ \E e \in Endpoints : Expire(e)

SpecGet == Init /\ [][NextGet]_vars

\* One train, read
InitTrain ==
    /\ InitProgram
    /\ \E eta \in Timestamps, tta \in Timestamps :
          payload = [EmptyPayload EXCEPT !["tpc1"].Passes =
                        <<TrainData("E", "De Akkers", eta, tta)>>]

NextTrain ==
    \/ \E self \in Instances, k \in 1..1 : CallDelayMins(self, k)
    \/ \E self \in Instances, k \in 1..1, now \in {0, 45} : CallMinutesUntilDeparture(self, k, now)

SpecTrain == InitTrain /\ [][NextTrain]_vars

\* Intervals, constructed directly and by a line of a short timing point
NextIntervals ==
    \/ \E data \in IntervalsTrainData : AddPass("tpc1", data, MaxPassesIntervals)
    \/ DropPass("tpc1")
    \/ \E gaps \in Gaps : CallNewIntervals(gaps)
    \/ \E self \in Instances : CallIntervals(LineWithDirection("E", self))
    \/ CallRepr

SpecIntervals == Init /\ [][NextIntervals]_vars

\* The line-level operations on one timing point
NextLine ==
    \/ \E data \in LineTrainData : AddPass("tpc1", data, MaxPasses)
    \/ DropPass("tpc1")
    \/ \E self \in {DirectionAtStation(1, "tpc1")} : CallTrains(self)
    \/ \E self \in {DirectionAtStation(1, "tpc1")}, l \in Lines, nows \in Nows :
          CallNextThree(LineWithDirection(l, self), nows)
    \/ \E self \in {DirectionAtStation(1, "tpc1")}, l \in Lines :
          CallIntervals(LineWithDirection(l, self))
    \/ CallRepr

SpecLine == Init /\ [][NextLine]_vars

\* A timing point's cached lines, read for their direction as upstream changes
NextDirection ==
    \/ \E data \in DirectionTrainData : AddPass("tpc1", data, MaxPassesDirection)
    \/ DropPass("tpc1")
    \/ \E self \in Instances : CallLines(self)
    \/ \E i \in DOMAIN lines_cache, k \in 1..Cardinality(Lines) :
          /\ k \in DOMAIN lines_cache[i].value
          /\ CallDirection(lines_cache[i].value[k])

SpecDirection == Init /\ [][NextDirection]_vars

\* The station's lines by name and direction
NextStation ==
    \/ \E tp \in DOMAIN payload, data \in StationTrainData : AddPass(tp, data, MaxPassesStation)
    \/ \E tp \in DOMAIN payload : DropPass(tp)
    \/ CallStationLines

SpecStation == Init /\ [][NextStation]_vars

-----------------------------------------------------------------------------
(* The payload as upstream states it, read without the program's operations *)

\* The places, in the Passes of timing point tp, of the passes of line name
PassesOf(tp, name) ==
    {k \in DOMAIN payload[tp].Passes : payload[tp].Passes[k].LinePublicNumber = name}

LineNamesAt(tp) ==
    {payload[tp].Passes[k].LinePublicNumber : k \in DOMAIN payload[tp].Passes}

DestinationsOf(tp, name) ==
    {payload[tp].Passes[k].DestinationName50 : k \in PassesOf(tp, name)}

Seconds(ts) == 60 * ts[1] + ts[2]
ExpectedAt(tp, k) == Seconds(payload[tp].Passes[k].ExpectedArrivalTime)
TargetAt(tp, k) == Seconds(payload[tp].Passes[k].TargetArrivalTime)

\* The x-th smallest (counting repeats) of the values at(k), k in T
Nth(T, at(_), x) ==
    CHOOSE e \in {at(k) : k \in T} :
        /\ Cardinality({k \in T : at(k) < e}) < x
        /\ x <= Cardinality({k \in T : at(k) <= e})

-----------------------------------------------------------------------------
(* C3.  For every DirectionAtStation instance and any sequence of calls,    *)
(* calls of the same attribute on other instances in between included,      *)
(* stop_name and lines are computed at most once per instance: every call   *)
(* returns the value the instance's first call returned, whatever upstream  *)
(* has become.                                                              *)
C3_ComputedOncePerInstance ==
    ret.op \in {"stop_name", "lines"} => ret.out.val = first_seen[ret.op][ret.self.id][1]

(* C7.  delay_mins of every Train equals                                    *)
(* timedelta_to_integer_minutes(expected - target): the delay cut toward    *)
(* zero to whole minutes, positive when late and negative when early.       *)
C7_DelayMinsIsWholeMinutes ==
    ret.op = "delay_mins" =>
        FloatEqInt(ret.out.val,
                   timedelta_to_integer_minutes(
                       Seconds(ret.self.train_data.ExpectedArrivalTime)
                       - Seconds(ret.self.train_data.TargetArrivalTime)))

(* C8.  direction of a LineWithDirection got from DirectionAtStation.lines, *)
(* read at any later time, returns the table's direction for a destination  *)
(* of the line's current trains, and fails only because that destination   *)
(* is absent from the table (KeyError, the spec's UnknownDestinationError). *)
C8_DirectionFailsOnlyOnUnknownDestination ==
    ret.op = "direction" =>
        LET ds == DestinationsOf(ret.self.timing_point.timing_point_code, ret.self.line_name)
        IN \/ /\ ret.out.exc = None
              /\ \E x \in ds \cap DOMAIN destination_to_direction :
                     ret.out.val = destination_to_direction[x]
           \/ /\ ret.out = Raise("KeyError")
              /\ \E x \in ds : x \notin DOMAIN destination_to_direction

(* C9.  OVAPI.get fails with an HTTP error whenever the response status is  *)
(* not 2xx, and the failure reaches the caller: the body of such a response *)
(* is neither returned nor cached.                                          *)
C9_NonSuccessStatusRaises ==
    /\ (ret.op = "get" /\ "status_code" \in DOMAIN ret.resp
            /\ ret.resp.status_code \notin 200..299)
       => ret.out = Raise("HTTPError")
    /\ \A e \in Endpoints :
          dogpile[e] # NO_VALUE =>
              \E r \in Responses(e) :
                  /\ "status_code" \in DOMAIN r
                  /\ r.status_code \in 200..299
                  /\ r.body.json
                  /\ dogpile[e][1] = r.body.doc

-----------------------------------------------------------------------------
(* C1.  Whatever the payload of a timing point and the order of its Passes, *)
(* DirectionAtStation.trains returns exactly one Train per record, in       *)
(* non-decreasing order of expected arrival time.                           *)
C1_TrainsOnePerRecordSorted ==
    ret.op = "trains" =>
        LET tp == ret.self.timing_point_code
            ts == ret.out.val
        IN /\ Len(ts) = Len(payload[tp].Passes)
           /\ \A k \in DOMAIN payload[tp].Passes :
                  Cardinality({i \in DOMAIN ts : ts[i] = Train(k, payload[tp].Passes[k])}) = 1
           /\ \A i \in DOMAIN ts : ts[i].train_name \in DOMAIN payload[tp].Passes
           /\ \A i \in 1..(Len(ts) - 1) :
                  ExpectedAt(tp, ts[i].train_name) <= ExpectedAt(tp, ts[i + 1].train_name)

\* trains has put three or more passes, two of them late for their place and two
\* of them expected at the same time, in order
C1_Witness ==
    /\ ret.op = "trains"
    /\ Len(ret.out.val) >= 3
    /\ \E i, j \in DOMAIN ret.out.val : i < j /\ ret.out.val[i].train_name > ret.out.val[j].train_name
    /\ \E i, j \in DOMAIN ret.out.val :
          i # j /\ arrival_time(ret.out.val[i]) = arrival_time(ret.out.val[j])

(* C5.  next_three_departure_times returns min(3, k) entries, k the number  *)
(* of trains of the line at the timing point: the minutes until departure   *)
(* of the line's trains with the earliest expected arrival times, earliest  *)
(* first, without padding and without an error when k < 3.                  *)
C5_NextThreeEarliest ==
    ret.op = "next_three_departure_times" =>
        LET tp == ret.self.timing_point.timing_point_code
            T == PassesOf(tp, ret.self.line_name)
            k == Cardinality(T)
            at(i) == ExpectedAt(tp, i)
        IN /\ ret.out.exc = None
           /\ Len(ret.out.val) = IF k < 3 THEN k ELSE 3
           /\ \A x \in DOMAIN ret.out.val :
                  LET d == Nth(T, at, x) - ret.nows[x]
                  IN ret.out.val[x] = IF d >= 0 THEN d \div 60 ELSE 0 - ((0 - d) \div 60)

\* three entries out of four trains of the line, which upstream lists in another
\* order than they are expected, the earliest of them already gone
C5_Witness ==
    /\ ret.op = "next_three_departure_times"
    /\ Len(ret.out.val) = 3
    /\ LET tp == ret.self.timing_point.timing_point_code
           T == PassesOf(tp, ret.self.line_name)
       IN /\ Cardinality(T) >= 4
          /\ \E i, j \in T : i < j /\ ExpectedAt(tp, i) > ExpectedAt(tp, j)
          /\ \E i \in T : ExpectedAt(tp, i) < ret.nows[1]

(* C2.  For a line with at least two trains, intervals yields the whole-    *)
(* minute differences between consecutive trains in the order of their      *)
(* target arrival times, whatever the order of their expected times; every  *)
(* gap is >= 0 and trains with one target time give a gap of 0; target      *)
(* times at minutes 0, 10, 10, 25 give gaps [10, 0, 15], minimum 0, maximum *)
(* 15, rendered "0-15".                                                     *)
C2_IntervalsByTargetTime ==
    /\ ret.op = "intervals" =>
          LET tp == ret.self.timing_point.timing_point_code
              T == PassesOf(tp, ret.self.line_name)
              k == Cardinality(T)
              at(i) == TargetAt(tp, i)
          IN k >= 2 =>
                /\ ret.out.exc = None
                /\ Len(ret.out.val.intervals) = k - 1
                /\ \A j \in 1..(k - 1) :
                      /\ ret.out.val.intervals[j] = (Nth(T, at, j + 1) - Nth(T, at, j)) \div 60
                      /\ ret.out.val.intervals[j] >= 0
                /\ (k = 4 /\ Nth(T, at, 1) = 0 /\ Nth(T, at, 2) = 600
                          /\ Nth(T, at, 3) = 600 /\ Nth(T, at, 4) = 1500)
                   => /\ ret.out.val.intervals = <<10, 0, 15>>
                      /\ ret.out.val.minimum = 0
                      /\ ret.out.val.maximum = 15
    /\ (ret.op = "repr" /\ ret.self.intervals = <<10, 0, 15>>)
       => ret.out.val = <<"0", "-", "1", "5">>

\* the intervals of the line with target times 0, 10, 10, 25, whose train due first
\* is expected last, have been rendered
C2_Witness ==
    /\ ret.op = "repr"
    /\ ret.self.intervals = <<10, 0, 15>>
    /\ ret.out.val = <<"0", "-", "1", "5">>
    /\ \E i, j \in PassesOf("tpc1", "E") :
          /\ TargetAt("tpc1", i) < TargetAt("tpc1", j)
          /\ ExpectedAt("tpc1", i) > ExpectedAt("tpc1", j)
    /\ Cardinality(PassesOf("tpc1", "E")) = 4
    /\ {TargetAt("tpc1", i) : i \in PassesOf("tpc1", "E")} = {0, 600, 1500}

-----------------------------------------------------------------------------
C10_IntervalsMinMaxRendering ==
    /\ (ret.op = "Intervals" /\ Len(ret.intervals) > 0)
       => /\ ret.out.exc = None
          /\ ret.out.val.intervals = ret.intervals
          /\ \A i \in DOMAIN ret.intervals :
                 ret.out.val.minimum <= ret.intervals[i] /\ ret.intervals[i] <= ret.out.val.maximum
          /\ \E i \in DOMAIN ret.intervals : ret.out.val.minimum = ret.intervals[i]
          /\ \E i \in DOMAIN ret.intervals : ret.out.val.maximum = ret.intervals[i]
    /\ ret.op = "repr"
       => /\ ret.self.minimum <= ret.self.maximum
          /\ ret.self.minimum = ret.self.maximum => ret.out.val = str(ret.self.minimum)
          /\ ret.self.minimum < ret.self.maximum
             => ret.out.val = str(ret.self.minimum) \o <<"-">> \o str(ret.self.maximum)

\* an Intervals of three gaps, the largest in the middle and the smallest negative,
\* has been rendered as "minimum-maximum"
C10_Witness ==
    /\ ret.op = "repr"
    /\ Len(ret.self.intervals) = 3
    /\ ret.self.intervals[2] > ret.self.intervals[1]
    /\ ret.self.intervals[2] > ret.self.intervals[3]
    /\ ret.self.minimum < 0
    /\ ret.out.val = <<"-", "1", "-", "1">>

-----------------------------------------------------------------------------
(* C6.  Station.lines maps line name -> direction -> LineWithDirection: a   *)
(* key (name, d) is present exactly when some timing point of the station   *)
(* has a line named name whose direction resolved to d, and its value is    *)
(* the LineWithDirection of the last such timing point in the order of      *)
(* traversal (overwritten, not merged); with two timing points reporting    *)
(* line "E" for "Rotterdam Centraal" and for "De Akkers", lines["E"] has    *)
(* the keys "Northbound" and "Southbound".                                  *)

\* The place in TimingPoints of the timing point of line l
PlaceOf(l) == CHOOSE j \in DOMAIN TimingPoints : TimingPoints[j] = l.timing_point.timing_point_code

\* The timing points, by place, whose line called name resolved to direction d in
\* the call that ret reports
ResolvedAt(name, d) ==
    {PlaceOf(ret.resolved[i].line) : i \in
        {i \in DOMAIN ret.resolved :
            ret.resolved[i].line.line_name = name /\ ret.resolved[i].direction = d}}

C6_StationLinesLastWins ==
    (ret.op = "Station.lines" /\ ret.out.exc = None) =>
        LET m == ret.out.val
            directions_known == DOMAIN direction_to_destination
        IN \* every line of every timing point was resolved once, to the direction
           \* of one of its destinations
           /\ \A j \in DOMAIN TimingPoints : \A name \in LineNamesAt(TimingPoints[j]) :
                  \E i \in DOMAIN ret.resolved :
                      /\ ret.resolved[i].line =
                            LineWithDirection(name, DirectionAtStation(0, TimingPoints[j]))
                      /\ \E x \in DestinationsOf(TimingPoints[j], name) :
                             /\ x \in DOMAIN destination_to_direction
                             /\ ret.resolved[i].direction = destination_to_direction[x]
           /\ Len(ret.resolved) =
                 Cardinality({<<j, name>> \in (DOMAIN TimingPoints) \X Lines :
                                 name \in LineNamesAt(TimingPoints[j])})
           \* the keys
           /\ DOMAIN m \subseteq Lines
           /\ \A name \in DOMAIN m : DOMAIN m[name] \subseteq directions_known
           /\ \A name \in Lines, d \in directions_known :
                  (name \in DOMAIN m /\ d \in DOMAIN m[name]) <=> ResolvedAt(name, d) # {}
           \* the values
           /\ \A name \in DOMAIN m : \A d \in DOMAIN m[name] :
                  \E j \in ResolvedAt(name, d) :
                      /\ \A j2 \in ResolvedAt(name, d) : j2 <= j
                      /\ m[name][d] =
                            LineWithDirection(name, DirectionAtStation(0, TimingPoints[j]))
           \* the two timing points of line E
           /\ (DestinationsOf("tpc1", "E") = {"Rotterdam Centraal"}
                   /\ DestinationsOf("tpc2", "E") = {"De Akkers"})
              => ("E" \in DOMAIN m /\ DOMAIN m["E"] = {"Northbound", "Southbound"})

\* both timing points report line E for Rotterdam Centraal, the second one for De
\* Akkers as well, and its direction resolved to Northbound: lines["E"] holds the
\* second timing point's line under Northbound, over the first one's
C6_Witness ==
    /\ ret.op = "Station.lines"
    /\ ret.out.exc = None
    /\ DestinationsOf("tpc1", "E") = {"Rotterdam Centraal"}
    /\ DestinationsOf("tpc2", "E") = {"De Akkers", "Rotterdam Centraal"}
    /\ "E" \in DOMAIN ret.out.val
    /\ DOMAIN ret.out.val["E"] = {"Northbound"}
    /\ ret.out.val["E"]["Northbound"].timing_point.timing_point_code = "tpc2"

====
